---------------------------- MODULE Spec2Model ----------------------------
(***************************************************************************)
(* Model of hpg_grant_stw: the matcher (score_alignment, align,            *)
(* filter_alignments, top_for_ngo), the writer's batch_build, the scraper  *)
(* and the command line (main, _serialize_alignment, _save_drafts).        *)
(*                                                                         *)
(* A Python str is a sequence of one-character strings, so that lower(),   *)
(* replace(), split() and strip() are computed, not assumed.  A Python     *)
(* float is an IEEE-754 binary64 value; the scores the program can produce *)
(* are sums of multiples of 0.5 and of n * 0.1, and are held exactly (see  *)
(* "binary64" below).  Optional[x] is a sequence of length at most one.    *)
(***************************************************************************)
EXTENDS Integers, Sequences, FiniteSets, TLC

VARIABLES
  ngos,        \* the organizations the caller holds (a list of NGO)
  grants,      \* the opportunities the caller holds (a list of GrantOpportunity)
  alignments,  \* the list of AlignmentResult the caller got from align
  ret,         \* the last call: [op, args, value]; op = "none" before any call
  gen,         \* the generator scraper.scrape returned to the caller, None before
  fs           \* the file system: [dirs: set of directories, files: path -> text]

vars == <<ngos, grants, alignments, ret, gen, fs>>

-----------------------------------------------------------------------------
(* Bounds of the model. *)

MaxNgos == 2
MaxGrants == 2
MaxLimit == 2

-----------------------------------------------------------------------------
(* Python helpers: min, Optional, list and str operations. *)

Min(a, b) == IF a < b THEN a ELSE b
Max(a, b) == IF a > b THEN a ELSE b

None == <<>>
Some(x) == <<x>>

RECURSIVE Concat(_)
Concat(lists) ==
  IF lists = <<>> THEN <<>> ELSE Head(lists) \o Concat(Tail(lists))

Reverse(s) == [i \in 1..Len(s) |-> s[Len(s) + 1 - i]]

\* list[:limit], Python slice semantics: a negative stop counts from the end.
SliceTo(s, limit) ==
  LET n == Len(s)
      stop == IF limit >= 0 THEN Min(limit, n) ELSE Max(n + limit, 0)
  IN SubSeq(s, 1, stop)

UpperChars == <<"A","B","C","D","E","F","G","H","I","J","K","L","M",
                "N","O","P","Q","R","S","T","U","V","W","X","Y","Z">>
LowerChars == <<"a","b","c","d","e","f","g","h","i","j","k","l","m",
                "n","o","p","q","r","s","t","u","v","w","x","y","z">>

LowerChar(c) ==
  IF \E i \in 1..Len(UpperChars) : UpperChars[i] = c
    THEN LowerChars[CHOOSE i \in 1..Len(UpperChars) : UpperChars[i] = c]
    ELSE c

\* str.lower()
Lower(s) == [i \in 1..Len(s) |-> LowerChar(s[i])]

\* str.replace(old, new) for one-character old and new
Replace(s, old, new) == [i \in 1..Len(s) |-> IF s[i] = old THEN new ELSE s[i]]

Whitespace == {" ", "\n", "\t", "\r", "\f"}

RECURSIVE LStrip(_, _)
LStrip(s, chars) ==
  IF s # <<>> /\ Head(s) \in chars THEN LStrip(Tail(s), chars) ELSE s

RECURSIVE RStrip(_, _)
RStrip(s, chars) ==
  IF s # <<>> /\ s[Len(s)] \in chars
    THEN RStrip(SubSeq(s, 1, Len(s) - 1), chars)
    ELSE s

\* str.strip(chars); str.strip() is StripChars(s, Whitespace)
StripChars(s, chars) == RStrip(LStrip(s, chars), chars)

\* str.split(): the maximal runs of non-whitespace characters, in order.
\* A run starts where a non-whitespace character follows whitespace or the
\* start of s, and ends before the next whitespace or at the end of s.
Split(s) ==
  LET n == Len(s)
      starts == { i \in 1..n : s[i] \notin Whitespace
                                /\ (i = 1 \/ s[i - 1] \in Whitespace) }
      ends == { i \in 1..n : s[i] \notin Whitespace
                              /\ (i = n \/ s[i + 1] \in Whitespace) }
      kth(S, k) == CHOOSE i \in S : Cardinality({ j \in S : j < i }) = k - 1
  IN [k \in 1..Cardinality(starts) |-> SubSeq(s, kth(starts, k), kth(ends, k))]

\* sep.join(parts)
RECURSIVE Join(_, _)
Join(sep, parts) ==
  IF parts = <<>> THEN <<>>
  ELSE IF Len(parts) = 1 THEN parts[1]
  ELSE parts[1] \o sep \o Join(sep, Tail(parts))

-----------------------------------------------------------------------------
(* binary64.  Every float the program computes is k + r + d with k a count *)
(* of theme matches, r in {0, 0.5} and d = min(n * 0.1, 1.0).  Such a      *)
(* value is t/10 + e*q with t its number of tenths, q = 2^-56 / 5 and e a  *)
(* small integer, and is held as the integer t * ErrScale + e: the order   *)
(* and the equality of these integers are those of the floats.  In units   *)
(* of q, 1/10 is 2^55 and the double 0.1 is 2^55 + 2; a double in          *)
(* [2^(m-4), 2^(m-3)) is a multiple of 5 * 2^m.                            *)

ErrScale == 10000

Tenths(x) == (x + ErrScale \div 2) \div ErrScale
Err(x) == x - Tenths(x) * ErrScale
Mk(t, e) == t * ErrScale + e

RECURSIVE Pow2(_)
Pow2(m) == IF m = 0 THEN 1 ELSE 2 * Pow2(m - 1)

\* 2^x mod 5
Pow2Mod5(x) ==
  IF x % 4 = 0 THEN 1 ELSE IF x % 4 = 1 THEN 2 ELSE IF x % 4 = 2 THEN 4 ELSE 3

\* t/10 + e*q >= 2^(m-4)
AtLeastPow2(t, e, m) ==
  16 * t > 10 * Pow2(m) \/ (16 * t = 10 * Pow2(m) /\ e >= 0)

MaxBinade == 7

Binade(t, e) ==
  CHOOSE m \in 0..MaxBinade :
    AtLeastPow2(t, e, m) /\ (m = MaxBinade \/ ~AtLeastPow2(t, e, m + 1))

\* round-to-nearest, ties-to-even, of the real number t/10 + e*q
FloatRound(t, e) ==
  IF t = 0 /\ e = 0 THEN 0
  ELSE
    LET m == Binade(t, e)
        U == 5 * Pow2(m)
        base == Pow2(m + 1) * Pow2Mod5(54 - m)
        resM == (t * base + e) % (2 * U)
        resU == resM % U
        up == 2 * resU > U \/ (2 * resU = U /\ resM >= U)
    IN Mk(t, IF up THEN e - resU + U ELSE e - resU)

\* the float literal with t tenths (0.5 is FloatLit(5))
FloatLit(t) == FloatRound(t, 0)

\* n * 0.1 for an int n >= 0
FloatMulTenth(n) == FloatRound(n, 2 * n)

\* x + y
FloatAdd(x, y) == FloatRound(Tenths(x) + Tenths(y), Err(x) + Err(y))


-----------------------------------------------------------------------------
(* models.py: the entities.  An NGO is [id, region, mission, focus_areas,  *)
(* needs]; a GrantOpportunity is [id, region, description, themes]; the    *)
(* fields no operation of the matcher reads (name, funder, budget, ...)    *)
(* are left out.                                                           *)

NGO(id, region, mission, focus_areas, needs) ==
  [id |-> id, region |-> region, mission |-> mission,
   focus_areas |-> focus_areas, needs |-> needs]

GrantOpportunity(id, region, description, themes) ==
  [id |-> id, region |-> region, description |-> description, themes |-> themes]

AlignmentResult(ngo, grant, score, theme_matches, region_match, notes) ==
  [ngo |-> ngo, grant |-> grant, score |-> score,
   theme_matches |-> theme_matches, region_match |-> region_match,
   notes |-> notes]

DraftGrant(alignment, content, filename) ==
  [alignment |-> alignment, content |-> content, filename |-> filename]

-----------------------------------------------------------------------------
(* matcher.py *)

\* A collections.Counter is a function from its keys to positive counts.

\* a & b: the minimum of the counts, over the keys of both
CounterAnd(a, b) ==
  [k \in DOMAIN a \cap DOMAIN b |-> Min(a[k], b[k])]

RECURSIVE SumOver(_, _)
SumOver(f, keys) ==
  IF keys = {} THEN 0
  ELSE LET k == CHOOSE x \in keys : TRUE
       IN f[k] + SumOver(f, keys \ {k})

\* sum(counter.values())
CounterTotal(c) == SumOver(c, DOMAIN c)

StripSet == {",", ".", ";", ":", "(", ")", "[", "]", "{", "}", "\n", "\t"}

\* token.strip(",.;:()[]{}" "\n\t").strip()
Cleaned(token) == StripChars(StripChars(token, StripSet), Whitespace)

\* the tokens _normalize_tokens counts for one raw value, in order: the
\* pieces of raw_value.lower().replace("/", " ").split(), cleaned, the empty
\* ones left out
tokens_of(raw_value) ==
  LET pieces == Split(Replace(Lower(raw_value), "/", " "))
      cleaned == [i \in 1..Len(pieces) |-> Cleaned(pieces[i])]
      NotEmpty(token) == token # <<>>
  IN SelectSeq(cleaned, NotEmpty)

\* tokens[cleaned] += 1 for every token of every value: each key is counted
\* as often as it occurs
_normalize_tokens(values) ==
  LET counted == Concat([i \in 1..Len(values) |-> tokens_of(values[i])])
  IN [key \in { counted[i] : i \in 1..Len(counted) } |->
        Cardinality({ i \in 1..Len(counted) : counted[i] = key })]

\* mutant: the match recorded is the lowercased lookup key, not the theme
RECURSIVE ThemeLoop_AppendsToken(_, _, _)
ThemeLoop_AppendsToken(themes, ngo_tokens, acc) ==
  IF themes = <<>> THEN acc
  ELSE LET theme == Head(themes)
           token == Lower(theme)
       IN ThemeLoop_AppendsToken(Tail(themes), ngo_tokens,
            IF token \in DOMAIN ngo_tokens
              THEN [theme_matches |-> Append(acc.theme_matches, token),
                    overlap_score |-> FloatAdd(acc.overlap_score, FloatLit(10))]
              ELSE acc)

\* the loop over grant.themes: acc is [theme_matches, overlap_score]
RECURSIVE ThemeLoop(_, _, _)
ThemeLoop(themes, ngo_tokens, acc) ==
  IF themes = <<>> THEN acc
  ELSE LET theme == Head(themes)
           token == Lower(theme)
       IN ThemeLoop(Tail(themes), ngo_tokens,
            IF token \in DOMAIN ngo_tokens
              THEN [theme_matches |-> Append(acc.theme_matches, theme),
                    overlap_score |-> FloatAdd(acc.overlap_score, FloatLit(10))]
              ELSE acc)

regions_equal(a, b) == Lower(a) = Lower(b)

\* mutant: the description contribution is not capped
description_score_Uncapped(description_overlap) ==
  FloatMulTenth(description_overlap)

description_score_of(description_overlap) ==
  Min(FloatMulTenth(description_overlap), FloatLit(10))

\* a note is its fixed text and the text formatted into it
Note(text, arg) == [text |-> text, arg |-> arg]

\* mutant: the opportunity's tokens are those of its description alone
grant_tokens_DescriptionOnly(grant) == _normalize_tokens(<<grant.description>>)

\* grant_tokens = _normalize_tokens(grant.themes + [grant.description])
grant_tokens_of(grant) == _normalize_tokens(grant.themes \o <<grant.description>>)

score_alignment(ngo, grant) ==
  LET ngo_tokens == _normalize_tokens(ngo.focus_areas \o ngo.needs \o <<ngo.mission>>)
      grant_tokens == grant_tokens_of(grant)
      loop == ThemeLoop(grant.themes, ngo_tokens,
                        [theme_matches |-> <<>>, overlap_score |-> FloatLit(0)])
      theme_matches == loop.theme_matches
      overlap_score == loop.overlap_score
      region_match == regions_equal(ngo.region, grant.region)
      region_score == IF region_match THEN FloatLit(5) ELSE FloatLit(0)
      description_overlap == CounterTotal(CounterAnd(ngo_tokens, grant_tokens))
      description_score == description_score_of(description_overlap)
      score == FloatAdd(FloatAdd(overlap_score, region_score), description_score)
      notes ==
        (IF theme_matches # <<>>
           THEN <<Note("Matches themes: ", Join(<<",", " ">>, theme_matches))>>
           ELSE <<>>)
        \o (IF region_match
              THEN <<Note("Operates in the target region", <<>>)>> ELSE <<>>)
        \o (IF description_score > 0
              THEN <<Note("Mission language overlaps grant description", <<>>)>>
              ELSE <<>>)
  IN AlignmentResult(ngo, grant, score, theme_matches, region_match, notes)

\* mutant: x goes before the items whose score equals its own
insert_desc_BeforeEqual(sorted, x) ==
  LET k == Cardinality({ i \in 1..Len(sorted) : sorted[i].score > x.score })
  IN SubSeq(sorted, 1, k) \o <<x>> \o SubSeq(sorted, k + 1, Len(sorted))

\* sorted(items, key=lambda result: result.score, reverse=True): the sort is
\* stable, and stays so with reverse=True: items with equal scores keep
\* their order.  insert_desc puts x after every item whose score is >= its own.
insert_desc(sorted, x) ==
  LET k == Cardinality({ i \in 1..Len(sorted) : sorted[i].score >= x.score })
  IN SubSeq(sorted, 1, k) \o <<x>> \o SubSeq(sorted, k + 1, Len(sorted))

RECURSIVE sort_loop(_, _)
sort_loop(items, acc) ==
  IF items = <<>> THEN acc
  ELSE sort_loop(Tail(items), insert_desc(acc, Head(items)))

sorted_by_score_desc(items) == sort_loop(items, <<>>)

\* An Iterable argument: a list can be iterated again and again, an iterator
\* (a generator such as scrape's) yields each item once; pos counts the items
\* it has yielded.
Iterable(items, once) == [items |-> items, once |-> once, pos |-> 0]

\* the items a for loop over it gets, and it after that loop has run out
Yielded(it) ==
  IF it.once THEN SubSeq(it.items, it.pos + 1, Len(it.items)) ELSE it.items
Exhausted(it) ==
  IF it.once THEN [it EXCEPT !.pos = Len(it.items)] ELSE it

\* the inner loop of align: for grant in grants
RECURSIVE align_inner(_, _, _)
align_inner(ngo, grant_items, results) ==
  IF grant_items = <<>> THEN results
  ELSE align_inner(ngo, Tail(grant_items),
                   Append(results, score_alignment(ngo, Head(grant_items))))

\* the outer loop of align: for ngo in ngos
RECURSIVE align_outer(_, _, _)
align_outer(ngo_items, grants_it, results) ==
  IF ngo_items = <<>> THEN results
  ELSE align_outer(Tail(ngo_items), Exhausted(grants_it),
                   align_inner(Head(ngo_items), Yielded(grants_it), results))

align(ngos_it, grants_it) ==
  sorted_by_score_desc(align_outer(Yielded(ngos_it), grants_it, <<>>))

\* bool(s) of an Optional[str]: None and "" are false
Truthy(opt) == opt # None /\ opt[1] # <<>>

\* mutant: the required theme is lowercased but not stripped
required_theme_normalized_NoStrip(required_theme) ==
  IF Truthy(required_theme) THEN Some(Lower(required_theme[1])) ELSE None

required_theme_normalized_of(required_theme) ==
  IF Truthy(required_theme)
    THEN Some(StripChars(Lower(required_theme[1]), Whitespace))
    ELSE None

\* mutant: a result whose score equals min_score is dropped
filter_keeps_StrictScore(result, min_score, require_region_match, required_theme_normalized) ==
  /\ result.score > min_score
  /\ ~(require_region_match /\ ~result.region_match)
  /\ ~(/\ Truthy(required_theme_normalized)
       /\ ~(\E i \in 1..Len(result.grant.themes) :
              Lower(result.grant.themes[i]) = required_theme_normalized[1]))

\* whether the loop of filter_alignments keeps result
filter_keeps(result, min_score, require_region_match, required_theme_normalized) ==
  /\ ~(result.score < min_score)
  /\ ~(require_region_match /\ ~result.region_match)
  /\ ~(/\ Truthy(required_theme_normalized)
       /\ LET grant_themes == [i \in 1..Len(result.grant.themes) |->
                                 Lower(result.grant.themes[i])]
          IN ~(\E i \in 1..Len(grant_themes) :
                 grant_themes[i] = required_theme_normalized[1]))

RECURSIVE filter_loop(_, _, _, _, _)
filter_loop(items, min_score, require_region_match, required_theme_normalized, filtered) ==
  IF items = <<>> THEN filtered
  ELSE filter_loop(Tail(items), min_score, require_region_match,
                   required_theme_normalized,
                   IF filter_keeps(Head(items), min_score, require_region_match,
                                   required_theme_normalized)
                     THEN Append(filtered, Head(items))
                     ELSE filtered)

filter_alignments(items, min_score, require_region_match, required_theme) ==
  sorted_by_score_desc(
    filter_loop(items, min_score, require_region_match,
                required_theme_normalized_of(required_theme), <<>>))

\* the default of top_for_ngo's limit
DefaultLimit == 3

top_for_ngo(ngo, grant_items, limit, min_score, require_region_match) ==
  LET all_alignments == [i \in 1..Len(grant_items) |->
                           score_alignment(ngo, grant_items[i])]
      filtered == filter_alignments(all_alignments, min_score,
                                    require_region_match, None)
  IN SliceTo(filtered, limit)

-----------------------------------------------------------------------------
(* writer.py *)

\* build_draft: the document is the template with the fields of the
\* alignment's organization and opportunity formatted into it; it is held
\* as the identifiers of the two.  filename is None until the draft is saved.
build_draft(alignment) ==
  DraftGrant(alignment, <<"draft", alignment.ngo.id, alignment.grant.id>>, None)

\* mutant: the loop stops one draft late
RECURSIVE batch_loop_OffByOne(_, _, _)
batch_loop_OffByOne(items, max_results, drafts) ==
  IF items = <<>> THEN drafts
  ELSE IF Len(drafts) > max_results THEN drafts
  ELSE batch_loop_OffByOne(Tail(items), max_results,
                           Append(drafts, build_draft(Head(items))))

RECURSIVE batch_loop(_, _, _)
batch_loop(items, max_results, drafts) ==
  IF items = <<>> THEN drafts
  ELSE IF Len(drafts) >= max_results THEN drafts
  ELSE batch_loop(Tail(items), max_results, Append(drafts, build_draft(Head(items))))

\* the default of batch_build's max_results
DefaultMaxResults == 5

batch_build(items, max_results) == batch_loop(items, max_results, <<>>)

-----------------------------------------------------------------------------
(* data.py *)

\* data.HPG_NGOS
HPG_NGOS ==
  << NGO("hpg-01",
       <<"E","a","s","t"," ","A","f","r","i","c","a">>,
       <<"D","e","l","i","v","e","r"," ","s","a","f","e"," ","w","a","t",
          "e","r"," ","a","c","c","e","s","s"," ","a","n","d"," ","h","y",
          "g","i","e","n","e"," ","t","r","a","i","n","i","n","g"," ","t",
          "o"," ","r","u","r","a","l"," ","c","o","m","m","u","n","i","t",
          "i","e","s",".">>,
       <<<<"w","a","t","e","r">>,
        <<"s","a","n","i","t","a","t","i","o","n">>,
        <<"h","y","g","i","e","n","e">>,
        <<"i","n","f","r","a","s","t","r","u","c","t","u","r","e">>>>,
       <<<<"b","o","r","e","h","o","l","e"," ","d","r","i","l","l","i","n",
          "g">>,
        <<"s","o","l","a","r"," ","p","u","m","p","s">>,
        <<"b","e","h","a","v","i","o","r"," ","c","h","a","n","g","e"," ",
          "c","a","m","p","a","i","g","n","s">>>>),
     NGO("hpg-02",
       <<"S","o","u","t","h"," ","A","s","i","a">>,
       <<"S","t","r","e","n","g","t","h","e","n"," ","c","l","i","m","a",
          "t","e"," ","r","e","s","i","l","i","e","n","c","e"," ","f","o",
          "r"," ","s","m","a","l","l","h","o","l","d","e","r"," ","f","a",
          "r","m","e","r","s"," ","t","h","r","o","u","g","h"," ","t","r",
          "a","i","n","i","n","g"," ","a","n","d"," ","f","i","n","a","n",
          "c","e",".">>,
       <<<<"c","l","i","m","a","t","e">>,
        <<"a","g","r","i","c","u","l","t","u","r","e">>,
        <<"l","i","v","e","l","i","h","o","o","d","s">>,
        <<"f","i","n","a","n","c","e">>>>,
       <<<<"d","r","o","u","g","h","t","-","r","e","s","i","s","t","a","n",
          "t"," ","s","e","e","d","s">>,
        <<"m","i","c","r","o","-","i","n","s","u","r","a","n","c","e">>,
        <<"m","a","r","k","e","t"," ","l","i","n","k","a","g","e","s">>>>),
     NGO("hpg-03",
       <<"W","e","s","t"," ","A","f","r","i","c","a">>,
       <<"E","x","p","a","n","d"," ","a","c","c","e","s","s"," ","t","o",
          " ","S","T","E","M"," ","e","d","u","c","a","t","i","o","n"," ",
          "f","o","r"," ","g","i","r","l","s"," ","t","h","r","o","u","g",
          "h"," ","s","c","h","o","l","a","r","s","h","i","p","s"," ","a",
          "n","d"," ","m","e","n","t","o","r","s","h","i","p",".">>,
       <<<<"e","d","u","c","a","t","i","o","n">>,
        <<"g","e","n","d","e","r">>,
        <<"t","e","c","h","n","o","l","o","g","y">>,
        <<"s","c","h","o","l","a","r","s","h","i","p","s">>>>,
       <<<<"S","T","E","M"," ","l","a","b","s">>,
        <<"t","e","a","c","h","e","r"," ","t","r","a","i","n","i","n","g">>,
        <<"m","e","n","t","o","r","s","h","i","p"," ","n","e","t","w","o",
          "r","k","s">>>>) >>

\* data.DEMO_GRANTS
DEMO_GRANTS ==
  << GrantOpportunity("grant-usaid-wash",
       <<"E","a","s","t"," ","A","f","r","i","c","a">>,
       <<"S","u","p","p","o","r","t","s"," ","s","c","a","l","a","b","l",
          "e"," ","w","a","t","e","r",","," ","s","a","n","i","t","a","t",
          "i","o","n",","," ","a","n","d"," ","h","y","g","i","e","n","e",
          " ","s","o","l","u","t","i","o","n","s"," ","w","i","t","h"," ",
          "s","t","r","o","n","g"," ","c","o","m","m","u","n","i","t","y",
          " ","e","n","g","a","g","e","m","e","n","t"," ","a","n","d"," ",
          "s","u","s","t","a","i","n","a","b","i","l","i","t","y"," ","p",
          "l","a","n","s",".">>,
       <<<<"w","a","t","e","r">>,
        <<"s","a","n","i","t","a","t","i","o","n">>,
        <<"h","y","g","i","e","n","e">>,
        <<"i","n","n","o","v","a","t","i","o","n">>>>),
     GrantOpportunity("grant-gates-climate",
       <<"S","o","u","t","h"," ","A","s","i","a">>,
       <<"I","n","v","e","s","t","s"," ","i","n"," ","c","l","i","m","a",
          "t","e"," ","a","d","a","p","t","a","t","i","o","n"," ","f","o",
          "r"," ","s","m","a","l","l","h","o","l","d","e","r"," ","f","a",
          "r","m","e","r","s",","," ","i","n","c","l","u","d","i","n","g",
          " ","d","r","o","u","g","h","t","-","r","e","s","i","s","t","a",
          "n","t"," ","c","r","o","p","s",","," ","d","i","g","i","t","a",
          "l"," ","a","d","v","i","s","o","r","y"," ","t","o","o","l","s",
          ","," ","a","n","d"," ","i","n","c","l","u","s","i","v","e"," ",
          "f","i","n","a","n","c","e",".">>,
       <<<<"c","l","i","m","a","t","e">>,
        <<"a","g","r","i","c","u","l","t","u","r","e">>,
        <<"f","i","n","a","n","c","e">>,
        <<"d","i","g","i","t","a","l">>>>),
     GrantOpportunity("grant-unicef-girls",
       <<"W","e","s","t"," ","A","f","r","i","c","a">>,
       <<"F","u","n","d","s"," ","e","d","u","c","a","t","i","o","n"," ",
          "i","n","i","t","i","a","t","i","v","e","s"," ","t","h","a","t",
          " ","i","m","p","r","o","v","e"," ","g","i","r","l","s","'"," ",
          "a","c","c","e","s","s"," ","t","o"," ","S","T","E","M"," ","r",
          "e","s","o","u","r","c","e","s",","," ","t","e","a","c","h","e",
          "r"," ","t","r","a","i","n","i","n","g",","," ","a","n","d"," ",
          "c","o","m","m","u","n","i","t","y"," ","s","u","p","p","o","r",
          "t",".">>,
       <<<<"e","d","u","c","a","t","i","o","n">>,
        <<"g","e","n","d","e","r">>,
        <<"t","e","c","h","n","o","l","o","g","y">>,
        <<"c","o","m","m","u","n","i","t","y">>>>) >>

-----------------------------------------------------------------------------
(* scraper.py *)

DemoSource == <<"d","e","m","o">>

available_sources == <<DemoSource>>

\* scrape is a generator function: calling it runs none of its body and
\* returns a generator object; the body runs at the first next().
scrape(source) == [source |-> source, state |-> "created", pos |-> 0]

\* the source check at the head of scrape's body
source_supported(source) == StripChars(Lower(source), Whitespace) = DemoSource

\* one next() on the generator g: what it does (yield, raise ValueError, or
\* StopIteration), the value it yields, and g afterwards
gen_next(g) ==
  IF g.state = "closed"
    THEN [kind |-> "StopIteration", value |-> None, gen |-> g]
  ELSE IF g.state = "created" /\ ~source_supported(g.source)
    THEN [kind |-> "ValueError", value |-> None,
          gen |-> [g EXCEPT !.state = "closed"]]
  ELSE IF g.pos < Len(DEMO_GRANTS)
    THEN [kind |-> "yield", value |-> Some(DEMO_GRANTS[g.pos + 1]),
          gen |-> [g EXCEPT !.state = "running", !.pos = g.pos + 1]]
  ELSE [kind |-> "StopIteration", value |-> None,
        gen |-> [g EXCEPT !.state = "closed"]]

\* list(g): next() until it stops or raises
RECURSIVE list_loop(_, _)
list_loop(g, items) ==
  LET r == gen_next(g)
  IN IF r.kind = "yield" THEN list_loop(r.gen, Append(items, r.value[1]))
     ELSE [raised |-> IF r.kind = "ValueError" THEN Some("ValueError") ELSE None,
           items |-> items]

list_of(g) == list_loop(g, <<>>)

-----------------------------------------------------------------------------
(* cli.py *)

\* what a print writes is held as a tagged tuple, one per printed item
print_ngos(ngo_items) == [i \in 1..Len(ngo_items) |-> <<"ngo", ngo_items[i].id>>]

\* mutant: the two identifiers are swapped
_serialize_alignment_SwappedIds(result) ==
  [ngo |-> result.grant.id,
   grant |-> result.ngo.id,
   score |-> result.score,
   theme_matches |-> result.theme_matches,
   region_match |-> result.region_match,
   notes |-> result.notes]

_serialize_alignment(result) ==
  [ngo |-> result.ngo.id,
   grant |-> result.grant.id,
   score |-> result.score,
   theme_matches |-> result.theme_matches,
   region_match |-> result.region_match,
   notes |-> result.notes]

\* f"{draft.alignment.ngo.id}__{draft.alignment.grant.id}.md"
draft_filename(draft) ==
  <<draft.alignment.ngo.id, "__", draft.alignment.grant.id, ".md">>

\* the loop of _save_drafts: acc is [files, saved_paths]
RECURSIVE save_loop(_, _, _)
save_loop(drafts, directory, acc) ==
  IF drafts = <<>> THEN acc
  ELSE LET draft == Head(drafts)
           path == <<directory, draft_filename(draft)>>
           files == [p \in DOMAIN acc.files \cup {path} |->
                       IF p = path THEN draft.content ELSE acc.files[p]]
       IN save_loop(Tail(drafts), directory,
                    [files |-> files, saved_paths |-> Append(acc.saved_paths, path)])

\* _save_drafts(drafts, directory) on the file system fs0: the file system
\* after it and the paths it returns
_save_drafts(drafts, directory, fs0) ==
  LET made == fs0.dirs \cup {directory}
      saved == save_loop(drafts, directory,
                         [files |-> fs0.files, saved_paths |-> <<>>])
  IN [fs |-> [dirs |-> made, files |-> saved.files],
      saved_paths |-> saved.saved_paths]

_align_and_report(ngo_items, grant_items) ==
  LET results == align(Iterable(ngo_items, FALSE), Iterable(grant_items, FALSE))
  IN [results |-> results,
      stdout |-> <<<<"Top matches:">>>>
                 \o [i \in 1..Len(results) |->
                       <<"match", results[i].ngo.id, results[i].grant.id>>]]

print_grants(grant_items) ==
  [i \in 1..Len(grant_items) |-> <<"grant", grant_items[i].id>>]
print_paths(paths) == [i \in 1..Len(paths) |-> <<"path", paths[i]>>]

\* the defaults build_parser gives --output, --source and --max
DefaultOutput == "output"
DefaultMax == 5

\* parser.parse_args(argv): an option that argv does not carry gets its default
parse_args(argv) ==
  [demo |-> argv.demo,
   command |-> argv.command,
   output |-> IF argv.output = None THEN DefaultOutput ELSE argv.output[1],
   source |-> IF argv.source = None THEN DemoSource ELSE argv.source[1],
   max |-> IF argv.max = None THEN DefaultMax ELSE argv.max[1]]

-----------------------------------------------------------------------------
(* The caller.  One call is made from the state the caller starts in; the  *)
(* call and what it returned are kept in ret.                              *)

NoCall == [op |-> "none", args |-> <<>>, value |-> <<>>]
Call(op, args, value) == [op |-> op, args |-> args, value |-> value]

EmptyFs == [dirs |-> {}, files |-> <<>>]

-----------------------------------------------------------------------------
(* Inputs of score_alignment: every organization and every opportunity     *)
(* built from these field values.                                          *)

ScoreNgoRegions ==
  { <<"E","A">>,
    <<"S">> }

ScoreMissions ==
  { <<"a","i","d",","," ","W","a","t","e","r","/","f","o","o","d",".">>,
    <<"a"," ","a"," ","a"," ","a"," ","a"," ","a"," ","a"," ","a"," ","a"," ","a"," ","a"," ","a">>,
    <<>> }

ScoreFocusAreas ==
  { <<>>,
    <<<<"w","a","t","e","r">>>>,
    <<<<"A","i","d">>, <<"w","a","t","e","r">>>>,
    <<<<"c","l","e","a","n"," ","w","a","t","e","r">>>> }

ScoreNeeds ==
  { <<>>,
    <<<<"f","o","o","d">>>> }

ScoreGrantRegions ==
  { <<"e","a">>,
    <<"E","A">>,
    <<"N">> }

ScoreDescriptions ==
  { <<>>,
    <<"w","a","t","e","r"," ","(","a","i","d",")"," ","f","o","o","d",";">>,
    <<"a"," ","a"," ","a"," ","a"," ","a"," ","a"," ","a"," ","a"," ","a"," ","a"," ","a"," ","a"," ","a">>,
    <<"W","a","t","e","r"," ","w","a","t","e","r">> }

ScoreThemes ==
  { <<>>,
    <<<<"W","a","t","e","r">>, <<"a","i","d">>, <<"w","a","t","e","r">>>>,
    <<<<"c","l","e","a","n"," ","w","a","t","e","r">>, <<"A","I","D">>>>,
    <<<<"a">>>>,
    <<<<" ","a","i","d"," ">>, <<"f","o","o","d",",">>>> }

ScoreNgos ==
  { NGO("n", r, m, f, n) :
      r \in ScoreNgoRegions, m \in ScoreMissions,
      f \in ScoreFocusAreas, n \in ScoreNeeds }

ScoreGrants ==
  { GrantOpportunity("g", r, d, t) :
      r \in ScoreGrantRegions, d \in ScoreDescriptions, t \in ScoreThemes }

InitScore ==
  /\ ngos \in { <<n>> : n \in ScoreNgos }
  /\ grants \in { <<g>> : g \in ScoreGrants }
  /\ alignments = <<>>
  /\ ret = NoCall
  /\ gen = None
  /\ fs = EmptyFs

\* the caller calls score_alignment(ngo, grant) on a pair it holds
ScoreAlignment ==
  /\ ret.op = "none"
  /\ \E i \in 1..Len(ngos), j \in 1..Len(grants) :
       ret' = Call("score_alignment",
                   [ngo |-> ngos[i], grant |-> grants[j]],
                   score_alignment(ngos[i], grants[j]))
  /\ UNCHANGED <<ngos, grants, alignments, gen, fs>>

NextScore == ScoreAlignment

SpecScore == InitScore /\ [][NextScore]_vars

-----------------------------------------------------------------------------
(* The ranking calls: align, filter_alignments, top_for_ngo, batch_build.  *)
(* The caller holds up to MaxNgos organizations and MaxGrants              *)
(* opportunities drawn, with repetition, from two small pools.             *)

NgoPool ==
  { NGO("n1", <<"E","A">>, <<"w","a","t","e","r"," ","a","i","d">>, <<<<"a","i","d">>>>, <<>>),
    NGO("n2", <<"S">>, <<>>, <<<<"f","o","o","d">>>>, <<>>) }

GrantPool ==
  { GrantOpportunity("g1", <<"e","a">>, <<"a","i","d">>, <<<<" ","a","i","d"," ">>>>),
    GrantOpportunity("g2", <<"E","A">>, <<"a","i","d">>, <<<<"A","I","D">>>>),
    GrantOpportunity("g3", <<"S">>, <<"f","o","o","d"," ","w","a","t","e","r">>, <<<<"f","o","o","d">>>>) }

RequiredThemes ==
  { None,
    Some(<<>>),
    Some(<<" ">>),
    Some(<<" ","A","i","d"," ">>),
    Some(<<"A","I","D">>),
    Some(<<"f","o","o","d">>) }

\* min_score: the default 0.0, 0.7 (the score of a pair of the pools), 2.0
MinScores == { FloatLit(0), FloatLit(7), FloatLit(20) }
Limits == (-1..MaxLimit) \cup {DefaultLimit}
MaxResultsValues == (-1..MaxLimit) \cup {DefaultMaxResults}

SeqsUpTo(S, n) == UNION { [1..k -> S] : k \in 0..n }

Init ==
  /\ ngos \in SeqsUpTo(NgoPool, MaxNgos)
  /\ grants \in SeqsUpTo(GrantPool, MaxGrants)
  /\ alignments = <<>>
  /\ ret = NoCall
  /\ gen = None
  /\ fs = EmptyFs

\* alignments = align(ngos, grants); either argument may be the list itself
\* or a once-only iterator over it
Align ==
  /\ ret.op = "none"
  /\ \E ngos_once \in BOOLEAN, grants_once \in BOOLEAN :
       LET value == align(Iterable(ngos, ngos_once), Iterable(grants, grants_once))
       IN /\ alignments' = value
          /\ ret' = Call("align",
                         [ngos_once |-> ngos_once, grants_once |-> grants_once],
                         value)
  /\ UNCHANGED <<ngos, grants, gen, fs>>

\* the list the caller passes on: the one align returned, or that list in
\* the opposite (ascending) order
HeldLists == { alignments, Reverse(alignments) }

FilterAlignments ==
  /\ ret.op = "align"
  /\ \E items \in HeldLists, min_score \in MinScores,
        require_region_match \in BOOLEAN, required_theme \in RequiredThemes :
       ret' = Call("filter_alignments",
                   [alignments |-> items, min_score |-> min_score,
                    require_region_match |-> require_region_match,
                    required_theme |-> required_theme],
                   filter_alignments(items, min_score, require_region_match,
                                     required_theme))
  /\ UNCHANGED <<ngos, grants, alignments, gen, fs>>

TopForNgo ==
  /\ ret.op = "none"
  /\ \E i \in 1..Len(ngos), limit \in Limits, min_score \in MinScores,
        require_region_match \in BOOLEAN :
       ret' = Call("top_for_ngo",
                   [ngo |-> ngos[i], grants |-> grants, limit |-> limit,
                    min_score |-> min_score,
                    require_region_match |-> require_region_match],
                   top_for_ngo(ngos[i], grants, limit, min_score,
                               require_region_match))
  /\ UNCHANGED <<ngos, grants, alignments, gen, fs>>

BatchBuild ==
  /\ ret.op = "align"
  /\ \E items \in HeldLists, max_results \in MaxResultsValues :
       ret' = Call("batch_build",
                   [alignments |-> items, max_results |-> max_results],
                   batch_build(items, max_results))
  /\ UNCHANGED <<ngos, grants, alignments, gen, fs>>

\* the caller serializes one of the results align returned
SerializeAlignment ==
  /\ ret.op = "align"
  /\ \E i \in 1..Len(alignments) :
       ret' = Call("_serialize_alignment", [result |-> alignments[i]],
                   _serialize_alignment(alignments[i]))
  /\ UNCHANGED <<ngos, grants, alignments, gen, fs>>

Next == Align \/ FilterAlignments \/ TopForNgo \/ BatchBuild \/ SerializeAlignment

Spec == Init /\ [][Next]_vars

-----------------------------------------------------------------------------
(* The command line and the scraper: one command is run on the demo data,  *)
(* or scrape is called and the generator it returns is iterated.           *)

\* source names: the registered one, it with other case and surrounding
\* whitespace, an unregistered one, the empty one
Sources ==
  { DemoSource,
    <<" ","D","E","M","O"," ">>,
    <<"w","e","b">>,
    <<>> }

OptSources == {None} \cup { Some(s) : s \in Sources }
OptMax == {None} \cup { Some(m) : m \in -1..MaxLimit }

\* the well-formed command lines: [--output DIR] [--demo] [COMMAND
\* [--source NAME] [--max N]]; --source goes with scrape, align and write,
\* --max with write
Argvs ==
  { a \in [demo : BOOLEAN,
           output : {None, Some("drafts")},
           command : {None, Some("list-ngos"), Some("scrape"),
                      Some("align"), Some("write")},
           source : OptSources,
           max : OptMax] :
      /\ a.source # None => a.command \in {Some("scrape"), Some("align"), Some("write")}
      /\ a.max # None => a.command = Some("write") }

\* the output directory does not exist, or holds a draft of an earlier run
StaleFs ==
  [dirs |-> {DefaultOutput},
   files |-> [p \in {<<DefaultOutput, <<"hpg-01", "__", "grant-usaid-wash", ".md">>>>}
                |-> <<"stale">>]]

InitCli ==
  /\ ngos = HPG_NGOS
  /\ grants = <<>>
  /\ alignments = <<>>
  /\ ret = NoCall
  /\ gen = None
  /\ fs \in {EmptyFs, StaleFs}

\* the caller calls scraper.scrape(source) and holds the generator
Scrape ==
  /\ ret.op = "none"
  /\ \E source \in Sources :
       /\ gen' = Some(scrape(source))
       /\ ret' = Call("scrape", [source |-> source], <<"generator">>)
  /\ UNCHANGED <<ngos, grants, alignments, fs>>

\* the caller calls next() on the generator it holds
GenNext ==
  /\ gen # None
  /\ gen[1].state # "closed"
  /\ LET r == gen_next(gen[1])
     IN /\ gen' = Some(r.gen)
        /\ ret' = Call("next", [source |-> gen[1].source],
                       [kind |-> r.kind, value |-> r.value])
  /\ UNCHANGED <<ngos, grants, alignments, fs>>

\* a command ends: the exception that left main (None when it returned), what
\* it printed, and the file system it leaves; the call is kept with the
\* command line and the file system it started on
Returns(argv, raised, stdout, fs1) ==
  /\ fs' = fs1
  /\ ret' = Call("main", [argv |-> argv, fs |-> fs],
                 [raised |-> raised, stdout |-> stdout])

\* run_demo(output_dir), called by main(argv)
run_demo(argv, output_dir) ==
  \E listed \in {list_of(scrape(DemoSource))} :
    \E report \in {_align_and_report(HPG_NGOS, listed.items)} :
      \E drafts \in {batch_build(report.results, DefaultMaxResults)} :
        \E saved \in {_save_drafts(drafts, output_dir, fs)} :
          Returns(argv, None,
                  <<<<"Running HPG Grant STW demo pipeline...">>>>
                  \o print_ngos(HPG_NGOS)
                  \o <<<<"Loaded", Len(listed.items)>>>>
                  \o report.stdout
                  \o <<<<"Drafts generated:">>>> \o print_paths(saved.saved_paths),
                  saved.fs)

\* grants = list(scraper.scrape(args.source)), then a command's use of them:
\* the ValueError of an unsupported source leaves main before any of it
scrape_command(argv, args) ==
  \E listed \in {list_of(scrape(args.source))} :
    IF listed.raised # None THEN Returns(argv, listed.raised, <<>>, fs)
    ELSE Returns(argv, None, print_grants(listed.items), fs)

align_command(argv, args) ==
  \E listed \in {list_of(scrape(args.source))} :
    IF listed.raised # None THEN Returns(argv, listed.raised, <<>>, fs)
    ELSE \E results \in {align(Iterable(HPG_NGOS, FALSE),
                               Iterable(listed.items, FALSE))} :
           Returns(argv, None,
                   <<<<"json", [i \in 1..Len(results) |->
                                  _serialize_alignment(results[i])]>>>>,
                   fs)

write_command(argv, args) ==
  \E listed \in {list_of(scrape(args.source))} :
    IF listed.raised # None THEN Returns(argv, listed.raised, <<>>, fs)
    ELSE \E results \in {align(Iterable(HPG_NGOS, FALSE),
                               Iterable(listed.items, FALSE))} :
           \E drafts \in {batch_build(results, args.max)} :
             \E saved \in {_save_drafts(drafts, args.output, fs)} :
               Returns(argv, None,
                       <<<<"Drafts saved:">>>> \o print_paths(saved.saved_paths),
                       saved.fs)

\* main(argv), run to its end
main(argv) ==
  LET args == parse_args(argv)
  IN IF args.demo THEN run_demo(argv, args.output)
     ELSE IF args.command = Some("list-ngos")
       THEN Returns(argv, None, print_ngos(HPG_NGOS), fs)
     ELSE IF args.command = Some("scrape") THEN scrape_command(argv, args)
     ELSE IF args.command = Some("align") THEN align_command(argv, args)
     ELSE IF args.command = Some("write") THEN write_command(argv, args)
     ELSE Returns(argv, None, <<<<"help">>>>, fs)

\* the caller runs one command line
Main ==
  /\ ret.op = "none"
  /\ \E argv \in Argvs : main(argv)
  /\ UNCHANGED <<ngos, grants, alignments, gen>>

NextCli == Scrape \/ GenNext \/ Main

SpecCli == InitCli /\ [][NextCli]_vars

-----------------------------------------------------------------------------
(* CLAIMS *)

RECURSIVE IsSubsequence(_, _)
IsSubsequence(a, b) ==
  IF a = <<>> THEN TRUE
  ELSE IF b = <<>> THEN FALSE
  ELSE IF Head(a) = Head(b) THEN IsSubsequence(Tail(a), Tail(b))
  ELSE IsSubsequence(a, Tail(b))

Scored == ret.op = "score_alignment"

\* C1: every AlignmentResult returned by score_alignment has score >= 0, and
\* its theme_matches is a sub-sequence of opportunity.themes: every match is
\* an entry of the themes, in the same relative order, and none is recorded
\* more often than it occurs.
C1_ScoreNonNegativeAndMatchesSubsequence ==
  Scored =>
    /\ ret.value.score >= FloatLit(0)
    /\ IsSubsequence(ret.value.theme_matches, ret.args.grant.themes)

\* C1 witness: two of three themes matched, the first one not lowercase.
C1_Witness ==
  /\ Scored
  /\ Len(ret.args.grant.themes) = 3
  /\ Len(ret.value.theme_matches) = 2
  /\ ret.value.theme_matches[1] # Lower(ret.value.theme_matches[1])

OrgTokens(ngo) == _normalize_tokens(ngo.focus_areas \o ngo.needs \o <<ngo.mission>>)
OppTokens(grant) == _normalize_tokens(grant.themes \o <<grant.description>>)

\* the number of entries of themes whose lowercased phrase is a key of tokens
ThemeKeyCount(themes, tokens) ==
  Cardinality({ i \in 1..Len(themes) : Lower(themes[i]) \in DOMAIN tokens })

\* the sum over the common tokens of the smaller of the two counts
Overlap(a, b) ==
  LET common == DOMAIN a \cap DOMAIN b
      smaller == [k \in common |-> IF a[k] <= b[k] THEN a[k] ELSE b[k]]
  IN SumOver(smaller, common)

\* C2: score = 1.0 * (number of themes whose lowercased phrase is a key of the
\* organization token multiset) + (0.5 if the regions are equal ignoring case,
\* else 0) + min(0.1 * overlap, 1.0), overlap being the multiset-intersection
\* cardinality of the two token multisets; the last term never exceeds 1.0.
C2_ScoreFormula ==
  Scored =>
    LET ngo == ret.args.ngo
        grant == ret.args.grant
        count == ThemeKeyCount(grant.themes, OrgTokens(ngo))
        region == IF Lower(ngo.region) = Lower(grant.region) THEN 5 ELSE 0
        overlap == Overlap(OrgTokens(ngo), OppTokens(grant))
        description == Min(FloatMulTenth(overlap), FloatLit(10))
    IN /\ ret.value.score = FloatAdd(FloatLit(10 * count + region), description)
       /\ ret.value.score <= FloatLit(10 * count + region + 10)

\* C2 witness: an overlap above 10 (the cap applies), a theme match and equal
\* regions that differ in case.
C2_Witness ==
  /\ Scored
  /\ Overlap(OrgTokens(ret.args.ngo), OppTokens(ret.args.grant)) > 10
  /\ ret.value.theme_matches # <<>>
  /\ ret.value.region_match
  /\ ret.args.ngo.region # ret.args.grant.region
  /\ ret.value.score = FloatLit(25)

Range(s) == { s[i] : i \in 1..Len(s) }
CountIn(s, x) == Cardinality({ i \in 1..Len(s) : s[i] = x })
SameBag(s, t) == \A x \in Range(s) \cup Range(t) : CountIn(s, x) = CountIn(t, x)
IsSortedDesc(s) == \A i \in 1..(Len(s) - 1) : s[i].score >= s[i + 1].score

\* the results of scoring every pair, organizations outer, opportunities inner
AllPairs(ngo_items, grant_items) ==
  Concat([i \in 1..Len(ngo_items) |->
            [j \in 1..Len(grant_items) |->
               score_alignment(ngo_items[i], grant_items[j])]])

\* C3: for every organizations and opportunities argument of the declared
\* type (any iterable, a once-only iterator included), align returns exactly
\* len(organizations) * len(opportunities) results, one per pair of the
\* Cartesian product, sorted non-increasing by score.
C3_AlignCartesianSorted ==
  ret.op = "align" =>
    /\ Len(ret.value) = Len(ngos) * Len(grants)
    /\ SameBag(ret.value, AllPairs(ngos, grants))
    /\ IsSortedDesc(ret.value)

\* the score and region conditions of filter_alignments
PassesScoreRegion(result, args) ==
  /\ result.score >= args.min_score
  /\ args.require_region_match => result.region_match

\* the items of s that satisfy keep, in the order of s
RECURSIVE Kept(_, _)
Kept(s, keep) ==
  IF s = <<>> THEN <<>>
  ELSE IF Head(s) \in keep THEN <<Head(s)>> \o Kept(Tail(s), keep)
  ELSE Kept(Tail(s), keep)

Filtered == ret.op = "filter_alignments"

\* C4: for every input list, in any order, and every min_score,
\* filter_alignments returns exactly the input results with score >=
\* min_score (and, with require_region_match, with region_match true), each
\* as many times as in the input, sorted non-increasing by score; when the
\* input is already sorted descending the kept results keep their input order.
C4_FilterExactSorted ==
  (Filtered /\ ret.args.required_theme = None) =>
    LET items == ret.args.alignments
        passing == { x \in Range(items) : PassesScoreRegion(x, ret.args) }
    IN /\ \A x \in Range(items) \cup Range(ret.value) :
            CountIn(ret.value, x) = IF x \in passing THEN CountIn(items, x) ELSE 0
       /\ IsSortedDesc(ret.value)
       /\ IsSortedDesc(items) => ret.value = Kept(items, passing)

\* C4 witness: an input that is not sorted, a positive min_score that some
\* results fail and two or more pass, one of them with score = min_score.
C4_Witness ==
  /\ Filtered
  /\ ret.args.required_theme = None
  /\ ~IsSortedDesc(ret.args.alignments)
  /\ ret.args.min_score > FloatLit(0)
  /\ Len(ret.value) >= 2
  /\ Len(ret.value) < Len(ret.args.alignments)
  /\ \E i \in 1..Len(ret.value) : ret.value[i].score = ret.args.min_score

\* an entry of the opportunity's themes equals theme ignoring case
HasThemeIgnoringCase(result, theme) ==
  \E i \in 1..Len(result.grant.themes) :
    Lower(result.grant.themes[i]) = Lower(theme)

\* C5 as stated: whenever a required_theme is given (any string, the empty
\* string and strings with surrounding whitespace included), the output holds
\* only results whose opportunity.themes has an entry equal to required_theme
\* ignoring case, and holds every such input result that passes the score and
\* region conditions.
C5_ThemeFilterAnyString ==
  (Filtered /\ ret.args.required_theme # None) =>
    LET theme == ret.args.required_theme[1]
    IN /\ \A x \in Range(ret.value) : HasThemeIgnoringCase(x, theme)
       /\ \A x \in Range(ret.args.alignments) :
            (HasThemeIgnoringCase(x, theme) /\ PassesScoreRegion(x, ret.args))
              => x \in Range(ret.value)

\* C5 amended: when the given required_theme, lowercased and stripped of
\* surrounding whitespace, is not empty, the output holds exactly the input
\* results that pass the score and region conditions and have a theme whose
\* lowercased form equals it (the themes are not stripped); when it is empty
\* (required_theme is "" or only whitespace) no theme condition applies.
C5_ThemeFilterNormalized ==
  (Filtered /\ ret.args.required_theme # None) =>
    LET wanted == StripChars(Lower(ret.args.required_theme[1]), Whitespace)
        items == ret.args.alignments
        passing ==
          { x \in Range(items) :
              /\ PassesScoreRegion(x, ret.args)
              /\ wanted # <<>> =>
                   \E i \in 1..Len(x.grant.themes) : Lower(x.grant.themes[i]) = wanted }
    IN \A x \in Range(items) \cup Range(ret.value) :
         CountIn(ret.value, x) = IF x \in passing THEN CountIn(items, x) ELSE 0

\* C5 witness: a required_theme with surrounding whitespace; a result is kept
\* whose themes have no entry equal to it ignoring case, and a result whose
\* themes have such an entry, and which passes score and region, is dropped.
C5_Witness ==
  /\ Filtered
  /\ ret.args.required_theme # None
  /\ LET theme == ret.args.required_theme[1]
     IN /\ StripChars(Lower(theme), Whitespace) \notin {<<>>, Lower(theme)}
        /\ \E x \in Range(ret.value) : ~HasThemeIgnoringCase(x, theme)
        /\ \E x \in Range(ret.args.alignments) :
             /\ HasThemeIgnoringCase(x, theme)
             /\ PassesScoreRegion(x, ret.args)
             /\ x \notin Range(ret.value)

\* C6: for every organization, collection of opportunities and value of
\* limit, top_for_ngo returns the first `limit` entries of the filtered list
\* sorted descending: never more than limit entries (none for a limit below
\* 1), and no omitted filtered result has a higher score than a returned one.
C6_TopTruncatedToLimit ==
  ret.op = "top_for_ngo" =>
    LET a == ret.args
        scored == [j \in 1..Len(a.grants) |-> score_alignment(a.ngo, a.grants[j])]
        passing == { x \in Range(scored) : PassesScoreRegion(x, a) }
        full == sorted_by_score_desc(Kept(scored, passing))
        count == Min(Max(a.limit, 0), Len(full))
    IN /\ Len(ret.value) <= Max(a.limit, 0)
       /\ ret.value = SubSeq(full, 1, count)
       /\ \A x \in Range(ret.value) :
            \A k \in (count + 1)..Len(full) : full[k].score <= x.score

Batched == ret.op = "batch_build"

\* draft i owns input alignment i, for every draft
DraftsOwnInputPrefix ==
  \A i \in 1..Len(ret.value) :
    /\ i <= Len(ret.args.alignments)
    /\ ret.value[i].alignment = ret.args.alignments[i]

\* C7 as stated: for every sequence of n alignments and every max_results,
\* batch_build returns drafts for exactly the first min(n, max_results)
\* alignments, in input order, draft i owning input alignment i; never more
\* than max_results drafts, and all n when n is smaller than max_results.
C7_BatchFirstMin ==
  Batched =>
    LET n == Len(ret.args.alignments)
        max_results == ret.args.max_results
    IN /\ Len(ret.value) = Min(n, max_results)
       /\ DraftsOwnInputPrefix
       /\ Len(ret.value) <= max_results
       /\ n < max_results => Len(ret.value) = n

\* C7 amended: batch_build returns drafts for exactly the first
\* min(n, max(max_results, 0)) alignments, in input order without re-sorting,
\* draft i owning input alignment i: a negative max_results gives no draft.
\* The output never has more than max(max_results, 0) drafts and has all n
\* when n is smaller than max_results.
C7_BatchFirstMinOfNonNegative ==
  Batched =>
    LET n == Len(ret.args.alignments)
        max_results == ret.args.max_results
    IN /\ Len(ret.value) = Min(n, Max(max_results, 0))
       /\ DraftsOwnInputPrefix
       /\ Len(ret.value) <= Max(max_results, 0)
       /\ n < max_results => Len(ret.value) = n

\* C7 witness: an input in ascending order of score, longer than max_results,
\* cut to max_results >= 2 drafts that are not in descending order.
C7_Witness ==
  /\ Batched
  /\ ret.args.max_results >= 2
  /\ Len(ret.args.alignments) > ret.args.max_results
  /\ Len(ret.value) = ret.args.max_results
  /\ ret.value[1].alignment.score < ret.value[2].alignment.score


\* a source name that is not the registered demo source
Unregistered(source) == ~source_supported(source)

\* C8 as stated: a request for a source that is not the registered demo
\* source always ends in the unsupported-source error.  A next() on the
\* generator scrape returned for such a source raises ValueError and yields no
\* opportunity; a command line that carries --source with such a name ends in
\* ValueError, prints nothing, and leaves the file system as it was: no
\* output directory and no draft file is created or written.
C8_UnsupportedSourceSurfaced ==
  /\ (ret.op = "next" /\ Unregistered(ret.args.source)) =>
       /\ ret.value.kind = "ValueError"
       /\ ret.value.value = None
  /\ (/\ ret.op = "main"
      /\ ret.args.argv.source # None
      /\ Unregistered(ret.args.argv.source[1])) =>
       /\ ret.value.raised = Some("ValueError")
       /\ ret.value.stdout = <<>>
       /\ fs = ret.args.fs

\* the field names the claim gives the serialized record
ClaimedFields == {"org_id", "grant_id", "score", "theme_matches", "region_match", "notes"}

\* the keys of the dict _serialize_alignment returns
SerializedFields == {"ngo", "grant", "score", "theme_matches", "region_match", "notes"}

Serialized == ret.op = "_serialize_alignment"

\* C9 as stated: the serialized record of an AlignmentResult has exactly the
\* fields org_id (the organization identifier), grant_id (the opportunity
\* identifier), score, theme_matches, region_match and notes, theme_matches
\* and notes in the order they have on the AlignmentResult.
C9_SerializedOrgIdGrantId ==
  Serialized =>
    /\ DOMAIN ret.value = ClaimedFields
    /\ ret.value.org_id = ret.args.result.ngo.id
    /\ ret.value.grant_id = ret.args.result.grant.id
    /\ ret.value.score = ret.args.result.score
    /\ ret.value.theme_matches = ret.args.result.theme_matches
    /\ ret.value.region_match = ret.args.result.region_match
    /\ ret.value.notes = ret.args.result.notes

\* C9 amended: the serialized record of an AlignmentResult has exactly the
\* fields ngo (the organization identifier), grant (the opportunity
\* identifier), score, theme_matches, region_match and notes, theme_matches
\* and notes in the order they have on the AlignmentResult.
C9_SerializedNgoGrant ==
  Serialized =>
    /\ DOMAIN ret.value = SerializedFields
    /\ ret.value.ngo = ret.args.result.ngo.id
    /\ ret.value.grant = ret.args.result.grant.id
    /\ ret.value.score = ret.args.result.score
    /\ ret.value.theme_matches = ret.args.result.theme_matches
    /\ ret.value.region_match = ret.args.result.region_match
    /\ ret.value.notes = ret.args.result.notes

\* C9 witness: a result with a theme match and several notes, of an
\* organization and an opportunity with different identifiers, is serialized.
C9_Witness ==
  /\ Serialized
  /\ ret.args.result.theme_matches # <<>>
  /\ Len(ret.args.result.notes) >= 2
  /\ ret.args.result.ngo.id # ret.args.result.grant.id
  /\ ret.value.ngo = ret.args.result.ngo.id
\* the items of s whose score is score, in the order of s
WithScore(s, score) == Kept(s, { x \in Range(s) : x.score = score })

\* out keeps, among the items of equal score, the order they have in source
StableAgainst(out, source) ==
  \A x \in Range(out) :
    WithScore(out, x.score) = WithScore(Kept(source, Range(out)), x.score)

\* the results align generates, in the order it generates them: the
\* opportunities of a once-only iterator are all consumed for the first
\* organization
Generated ==
  Concat([i \in 1..Len(ngos) |->
            IF ret.args.grants_once /\ i > 1 THEN <<>>
            ELSE [j \in 1..Len(grants) |-> score_alignment(ngos[i], grants[j])]])

\* C10: the order of align's output is deterministic with a stable tie-break:
\* of two results with equal score, the one generated earlier (organizations
\* outer loop, opportunities inner loop) comes earlier, though the sort is
\* descending; the same holds for filter_alignments and its input order.
C10_StableTieBreak ==
  /\ ret.op = "align" =>
       /\ SameBag(ret.value, Generated)
       /\ StableAgainst(ret.value, Generated)
  /\ Filtered => StableAgainst(ret.value, ret.args.alignments)

\* C10 witness: filter_alignments got a list in ascending order that holds two
\* different results of equal score below a third one, and kept all three.
C10_Witness ==
  /\ Filtered
  /\ ~IsSortedDesc(ret.args.alignments)
  /\ \E i, j, k \in 1..Len(ret.value) :
       /\ i < j /\ j < k
       /\ ret.value[i].score > ret.value[j].score
       /\ ret.value[j].score = ret.value[k].score
       /\ ret.value[j] # ret.value[k]

\* the result has a note with this text
HasNote(result, text) == \E i \in 1..Len(result.notes) : result.notes[i].text = text

\* C11: in every AlignmentResult returned by score_alignment, a non-empty
\* theme_matches implies a positive description overlap: the lowercased phrase
\* of each matched theme is a token of both the organization and the
\* opportunity multisets, so the overlap is at least 1 and description_score
\* is at least 0.1; the "Mission language overlaps grant description" note is
\* there whenever the "Matches themes" note is; and score is at least the
\* number of theme matches + 0.1.
C11_ThemeMatchImpliesOverlap ==
  Scored =>
    LET org == OrgTokens(ret.args.ngo)
        opp == OppTokens(ret.args.grant)
        matches == ret.value.theme_matches
    IN /\ matches # <<>> =>
            /\ \A i \in 1..Len(matches) :
                 Lower(matches[i]) \in DOMAIN org \cap DOMAIN opp
            /\ Overlap(org, opp) >= 1
            /\ Min(FloatMulTenth(Overlap(org, opp)), FloatLit(10)) >= FloatLit(1)
            /\ ret.value.score >= FloatAdd(FloatLit(10 * Len(matches)), FloatLit(1))
       /\ HasNote(ret.value, "Matches themes: ") =>
            HasNote(ret.value, "Mission language overlaps grant description")

\* C11 witness: the opportunity has no description and names a theme twice;
\* both entries match, the overlap comes from the themes alone and is 1,
\* below the number of matches, and the score is exactly 2 + 0.1.
C11_Witness ==
  /\ Scored
  /\ ret.args.grant.description = <<>>
  /\ Len(ret.value.theme_matches) = 2
  /\ Overlap(OrgTokens(ret.args.ngo), OppTokens(ret.args.grant)) = 1
  /\ ~ret.value.region_match
  /\ ret.value.score = FloatAdd(FloatLit(20), FloatLit(1))
  /\ HasNote(ret.value, "Mission language overlaps grant description")

=============================================================================
